---- MODULE Spec2Model ----
(***************************************************************************)
(* AirSeal: dependency discovery (dependency_analyzer.py) and container    *)
(* image building (docker_builder.py), modelled as a state machine.        *)
(*                                                                         *)
(* A file path is a sequence of path segments (<<"proj","main.cpp">> is    *)
(* "proj/main.cpp").  File content is abstracted to what the extractors    *)
(* look at: whether it decodes as text, whether it parses, the names it    *)
(* imports, the local includes it names and, for a manifest, its entries.  *)
(***************************************************************************)
EXTENDS Naturals, Sequences, FiniteSets, TLC

VARIABLES
  fs,              \* the file system: path -> file content
  tomlInstalled,   \* whether `import toml` succeeds in this environment
  file_path,       \* DockerBuilder.file_path, the entry file of the request
  analyzed_paths,  \* DependencyAnalyzer.analyzed_paths
  project_root,    \* DependencyAnalyzer.project_root
  dependencies,    \* the set `dependencies` of analyze(), filled by the recursion
  stack,           \* active _analyze_file_recursive frames: [path, todo]
  result,          \* what the last analyze() call gave: [status, deps]
  pc,              \* position of the caller
  caller,          \* who called analyze(): "direct" or "build"
  temp_dir,        \* DockerBuilder.temp_dir (a directory id)
  tempDirs,        \* the temporary directories that exist on disk
  context,         \* files written into temp_dir: name -> content
  dockerfile,      \* the descriptor text handed to _build_from_dockerfile
  dockerCalls,     \* `docker build` invocations of the current build() call
  buildResult,     \* what the last build() call returned
  reads,           \* history: paths whose content the current call has read
  extractions,     \* history: files handed to a language handler in this run
  runs,            \* history: the completed analyze() calls
  fsAtCall,        \* history: fs when the current analyze() call started
  calls,           \* number of analyze()/build() calls made by the caller
  builders,        \* number of DockerBuilder objects constructed
  unlinks,         \* number of files the environment removed
  steps,           \* history: the stages the current build() call has completed
  dockerStatus,    \* history: how the `docker build` of the current build() call ended
  descriptors      \* history: the Dockerfiles generated so far

vars == <<fs, tomlInstalled, file_path, analyzed_paths, project_root,
          dependencies, stack, result, pc, caller, temp_dir, tempDirs,
          context, dockerfile, dockerCalls, buildResult, reads, extractions,
          runs, fsAtCall, calls, builders, unlinks, steps, dockerStatus,
          descriptors>>

(***************************************************************************)
(* Bounds                                                                  *)
(***************************************************************************)
\* Python's recursion limit, counted in nested _analyze_file_recursive frames
MaxDepth == 4
\* analyze()/build() calls the caller makes
MaxCalls == 2
\* DockerBuilder objects the caller constructs
MaxBuilders == 2
\* files the environment removes while an analysis runs
MaxUnlinks == 1

(***************************************************************************)
(* Values                                                                  *)
(***************************************************************************)
None == "None"
NoSource == <<>>
NoPath == <<"<nonexistent>">>

Dependency(type, name, version, source, language) ==
  [type |-> type, name |-> name, version |-> version,
   source |-> source, language |-> language]

\* Dependency.__hash__: the identity tuple
DependencyHash(d) == <<d.type, d.name, d.version, d.language>>

\* Path(p).suffix of the file names that occur
Suffix(name) ==
  CASE name \in {"main.cpp"} -> ".cpp"
    [] name \in {"util.h", "x.h", "a.h", "b.h"} -> ".h"
    [] name \in {"lib.hpp"} -> ".hpp"
    [] name \in {"util.hh"} -> ".hh"
    [] name \in {"m.py"} -> ".py"
    [] name \in {"app.js"} -> ".js"
    [] name \in {"Main.java"} -> ".java"
    [] name \in {"main.go"} -> ".go"
    [] name \in {"main.rs"} -> ".rs"
    [] name \in {"script.rb"} -> ".rb"
    [] name \in {"requirements.txt", "CMakeLists.txt"} -> ".txt"
    [] name \in {"package.json"} -> ".json"
    [] name \in {"build.gradle"} -> ".gradle"
    [] name \in {"pom.xml"} -> ".xml"
    [] name \in {"go.mod"} -> ".mod"
    [] name \in {"Cargo.toml"} -> ".toml"
    [] OTHER -> ""

\* the segments of an include string
Segments(inc) ==
  CASE inc = "sub/x.h" -> <<"sub", "x.h">>
    [] inc = "sub/b.h" -> <<"sub", "b.h">>
    [] inc = "./a.h" -> <<".", "a.h">>
    [] inc = "../a.h" -> <<"..", "a.h">>
    [] OTHER -> <<inc>>

Last(p) == p[Len(p)]
\* os.path.dirname
Dirname(p) == IF p = <<>> THEN <<>> ELSE SubSeq(p, 1, Len(p) - 1)
\* os.path.join(dir, rel) of a relative path
Join(dir, rel) == dir \o rel
PathSuffix(p) == IF p = <<>> THEN "" ELSE Suffix(Last(p))

IsPrefix(a, b) == Len(a) < Len(b) /\ SubSeq(b, 1, Len(a)) = a
IsDir(f, d) == \E p \in DOMAIN f : IsPrefix(d, p)

\* the file a path string names, as the operating system resolves it:
\* "." stays, ".." goes up, and both need the directory walked through to exist
RECURSIVE Walk(_, _, _)
Walk(f, p, acc) ==
  IF p = <<>> THEN acc
  ELSE IF Head(p) = "." THEN
         IF IsDir(f, acc) THEN Walk(f, Tail(p), acc) ELSE NoPath
  ELSE IF Head(p) = ".." THEN
         IF IsDir(f, acc) /\ acc # <<>> THEN Walk(f, Tail(p), Dirname(acc)) ELSE NoPath
  ELSE Walk(f, Tail(p), Append(acc, Head(p)))

Resolve(f, p) == Walk(f, p, <<>>)
\* os.path.exists
Exists(f, p) == p # <<>> /\ Resolve(f, p) \in DOMAIN f
Content(f, p) == f[Resolve(f, p)]

(***************************************************************************)
(* File contents and the file systems the analysis is run on               *)
(***************************************************************************)
File(imports, locals, entries) ==
  [decodable |-> TRUE, syntax |-> TRUE, shape |-> TRUE,
   imports |-> imports, locals |-> locals, entries |-> entries,
   public_class |-> None]
Source(imports, locals) == File(imports, locals, {})
Manifest(entries) == File({}, {}, entries)
Entry(name, version) == [name |-> name, version |-> version]

ManifestNames == {"requirements.txt", "package.json", "build.gradle",
                  "pom.xml", "CMakeLists.txt", "go.mod", "Cargo.toml"}
EntryNames == {"main.cpp", "lib.hpp", "m.py", "app.js", "Main.java",
               "main.go", "main.rs", "script.rb"}

P(name) == <<"proj", name>>
Sub(name) == <<"proj", "sub", name>>

CppDiamond ==
  (P("main.cpp") :> Source({"util.h"}, {"util.h", "sub/x.h"}))
  @@ (P("util.h") :> Source({"vector"}, {}))
  @@ (Sub("x.h") :> Source({}, {"util.h"}))
  @@ (Sub("util.h") :> Source({"map"}, {}))
CppScenarioC ==
  (P("main.cpp") :> Source({}, {"util.h"}))
  @@ (P("util.h") :> Source({"vector"}, {}))
  @@ (P("CMakeLists.txt") :> Manifest({Entry("Boost", "1.70")}))
CppCycle ==
  (P("main.cpp") :> Source({}, {"a.h"}))
  @@ (P("a.h") :> Source({}, {"b.h"}))
  @@ (P("b.h") :> Source({"vector"}, {"a.h"}))
CppDotCycle ==
  (P("main.cpp") :> Source({}, {"a.h"}))
  @@ (P("a.h") :> Source({"vector"}, {"./a.h"}))
CppUpCycle ==
  (P("main.cpp") :> Source({}, {"sub/b.h"}))
  @@ (Sub("b.h") :> Source({}, {"../a.h"}))
  @@ (P("a.h") :> Source({"vector"}, {"sub/b.h"}))
CppUnknownHeader ==
  (P("main.cpp") :> Source({}, {"util.hh"}))
  @@ (P("util.hh") :> Source({"vector"}, {}))
CppHeaderOnly ==
  (P("lib.hpp") :> Source({"string"}, {}))
PyImports ==
  (P("m.py") :> Source({"os", "requests"}, {}))
PyPlain ==
  (P("m.py") :> Source({}, {}))
  @@ (P("requirements.txt") :> Manifest({Entry("flask", "2.0.1")}))
PyFlask ==
  (P("m.py") :> Source({"flask"}, {}))
  @@ (P("requirements.txt") :> Manifest({Entry("flask", "2.0.1")}))
PyBroken ==
  (P("m.py") :> [Source({"requests"}, {}) EXCEPT !.syntax = FALSE])
JsApp ==
  (P("app.js") :> Source({"express"}, {}))
  @@ (P("package.json") :> Manifest({Entry("lodash", "4.17.21")}))
JavaGradle ==
  (P("Main.java") :> Source({"java.util.List"}, {}))
  @@ (P("build.gradle") :> Manifest({Entry("com.google.guava:guava", "31.0")}))
JavaMaven ==
  (P("Main.java") :> Source({"java.util.List"}, {}))
  @@ (P("pom.xml") :> Manifest({Entry("junit:junit", None)}))
\* Main.java declares `public class App`
JavaRenamed ==
  (P("Main.java") :> [Source({"java.util.List"}, {}) EXCEPT !.public_class = "App"])
GoApp ==
  (P("main.go") :> Source({"fmt"}, {}))
  @@ (P("go.mod") :> Manifest({Entry("github.com/pkg/errors", "v0.9.1")}))
RustApp ==
  (P("main.rs") :> Source({"serde"}, {}))
  @@ (P("Cargo.toml") :> Manifest({Entry("serde", "1.0")}))
RubyApp ==
  (P("script.rb") :> Source({"json"}, {}))

Worlds == {CppDiamond, CppScenarioC, CppCycle, CppDotCycle, CppUpCycle,
           CppUnknownHeader, CppHeaderOnly, PyImports, PyPlain, PyFlask,
           PyBroken, JsApp, JavaGradle, JavaMaven, JavaRenamed, GoApp, RustApp,
           RubyApp}

\* the condition of the sibling manifest file: not there, well formed, not
\* parseable, parseable with a section of the wrong shape, or not text at all
ManifestStates == {"absent", "ok", "syntax", "shape", "binary"}

IsManifest(p) == Last(p) \in ManifestNames
Damage(w, ms) ==
  LET keep == IF ms = "absent" THEN {p \in DOMAIN w : ~IsManifest(p)} ELSE DOMAIN w
  IN [p \in keep |->
        IF ~IsManifest(p) THEN w[p]
        ELSE [w[p] EXCEPT !.decodable = (ms # "binary"),
                          !.syntax = (ms \notin {"syntax", "binary"}),
                          !.shape = (ms \notin {"shape", "syntax", "binary"})]]

EntryFiles(f) == {p \in DOMAIN f : Last(p) \in EntryNames}

(***************************************************************************)
(* dependency_analyzer.py: the per-language extractors                     *)
(***************************************************************************)
\* the attributes class DependencyAnalyzer defines
DependencyAnalyzerMethods ==
  {"__init__", "analyze", "_analyze_file_recursive", "_analyze_python",
   "_analyze_javascript", "_analyze_java", "_analyze_cpp", "_analyze_go",
   "_analyze_rust", "_analyze_dependency_recursive"}

\* what a handler call gives: a set of dependencies, or an exception that
\* leaves the handler
Returned(deps) == [raised |-> FALSE, deps |-> deps]
Raised == [raised |-> TRUE, deps |-> {}]

Sibling(path, name) == Join(Dirname(path), <<name>>)

\* the entries a line or regex scan of a manifest finds: text that is not of the
\* expected form matches nothing
Scanned(m) == IF m.syntax /\ m.shape THEN m.entries ELSE {}

\* requirements.txt, lines 105-116: the text before the first of < > = ~ is the
\* name, the version is dropped; no line is rejected
RequirementsDeps(m) ==
  {Dependency("package", e.name, None, NoSource, "python") : e \in m.entries}

_analyze_python(f, path) ==
  LET src == Content(f, path)
      req == Sibling(path, "requirements.txt")
  IN IF ~src.syntax
       THEN Returned({})      \* ast.parse raises, caught at line 118
     ELSE IF src.imports # {} /\ "_get_python_package_info" \notin DependencyAnalyzerMethods
       THEN Returned({})      \* AttributeError at line 81/87, caught at line 118
     ELSE IF ~Exists(f, req)
       THEN Returned({})
     ELSE IF ~Content(f, req).decodable
       THEN Returned({})      \* UnicodeDecodeError, caught at line 118
     ELSE Returned(RequirementsDeps(Content(f, req)))

_analyze_javascript(f, path) ==
  LET src == Content(f, path)
      own == {Dependency("module", n, None, NoSource, "javascript") : n \in src.imports}
      pkg == Sibling(path, "package.json")
  IN IF ~Exists(f, pkg) THEN Returned(own)
     ELSE LET m == Content(f, pkg)
          IN IF ~m.decodable THEN Raised          \* UnicodeDecodeError is not caught
             ELSE IF ~m.syntax THEN Returned(own) \* json.JSONDecodeError: pass
             ELSE IF ~m.shape THEN Raised         \* .items() of a non-object
             ELSE Returned(own \cup
                    {Dependency("package", e.name, e.version, NoSource, "javascript") :
                       e \in m.entries})

_analyze_java(f, path) ==
  LET src == Content(f, path)
      own == {Dependency("package", n, None, NoSource, "java") : n \in src.imports}
      gradle == Sibling(path, "build.gradle")
      pom == Sibling(path, "pom.xml")
      built(m) == {Dependency("package", e.name, e.version, NoSource, "java") :
                     e \in Scanned(m)}
  IN IF Exists(f, gradle)
       THEN IF ~Content(f, gradle).decodable THEN Raised
            ELSE Returned(own \cup built(Content(f, gradle)))
     ELSE IF Exists(f, pom)
       THEN IF ~Content(f, pom).decodable THEN Returned(own)  \* caught at line 225
            ELSE Returned(own \cup built(Content(f, pom)))
     ELSE Returned(own)

_analyze_cpp(f, path) ==
  LET src == Content(f, path)
      system == {Dependency("header", n, None, NoSource, "cpp") : n \in src.imports}
      found == {inc \in src.locals : Exists(f, Join(Dirname(path), Segments(inc)))}
      local == {Dependency("header", inc, None, Join(Dirname(path), Segments(inc)), "cpp") :
                  inc \in found}
      cmake == Sibling(path, "CMakeLists.txt")
  IN IF ~Exists(f, cmake) THEN Returned(system \cup local)
     ELSE IF ~Content(f, cmake).decodable THEN Raised
     ELSE Returned(system \cup local \cup
            {Dependency("package", e.name, e.version, NoSource, "cpp") :
               e \in Scanned(Content(f, cmake))})

_analyze_go(f, path) ==
  LET src == Content(f, path)
      own == {Dependency("package", n, None, NoSource, "go") : n \in src.imports}
      mod == Sibling(path, "go.mod")
  IN IF ~Exists(f, mod) THEN Returned(own)
     ELSE IF ~Content(f, mod).decodable THEN Raised
     ELSE Returned(own \cup
            {Dependency("package", e.name, e.version, NoSource, "go") :
               e \in Scanned(Content(f, mod))})

_analyze_rust(f, toml, path) ==
  LET src == Content(f, path)
      own == {Dependency("module", n, None, NoSource, "rust") : n \in src.imports}
      cargo == Sibling(path, "Cargo.toml")
  IN IF ~Exists(f, cargo) THEN Returned(own)
     ELSE LET m == Content(f, cargo)
          IN IF ~toml \/ ~m.decodable \/ ~m.syntax \/ ~m.shape
               THEN Returned(own)                 \* caught at line 353
             ELSE Returned(own \cup
                    {Dependency("crate", e.name, e.version, NoSource, "rust") :
                       e \in m.entries})

\* DependencyAnalyzer.language_handlers: the registered extensions
language_handlers == {".py", ".java", ".js", ".cpp", ".hpp", ".h", ".go", ".rs"}

\* self.language_handlers[ext](content, file_path)
Handle(f, toml, path) ==
  LET ext == PathSuffix(path)
  IN CASE ext = ".py" -> _analyze_python(f, path)
       [] ext = ".java" -> _analyze_java(f, path)
       [] ext = ".js" -> _analyze_javascript(f, path)
       [] ext \in {".cpp", ".hpp", ".h"} -> _analyze_cpp(f, path)
       [] ext = ".go" -> _analyze_go(f, path)
       [] ext = ".rs" -> _analyze_rust(f, toml, path)
       [] OTHER -> Raised                         \* KeyError

(***************************************************************************)
(* dependency_analyzer.py: analyze() and the recursion                     *)
(***************************************************************************)
\* the sibling manifest files a handler opens for a file of this extension
SiblingReads(f, path) ==
  LET ext == PathSuffix(path)
      names == CASE ext = ".py" -> {"requirements.txt"}
                 [] ext = ".js" -> {"package.json"}
                 [] ext = ".java" ->
                      IF Exists(f, Sibling(path, "build.gradle"))
                        THEN {"build.gradle"} ELSE {"pom.xml"}
                 [] ext \in {".cpp", ".hpp", ".h"} -> {"CMakeLists.txt"}
                 [] ext = ".go" -> {"go.mod"}
                 [] ext = ".rs" -> {"Cargo.toml"}
                 [] OTHER -> {}
  IN {Sibling(path, n) : n \in {m \in names : Exists(f, Sibling(path, m))}}

\* _analyze_file_recursive without the handler at line 68 for a file that cannot
\* be opened or read: the exception unwinds every active call and the set
\* being accumulated is lost with it
_analyze_file_recursive_uncaught(f, path, stk, deps, rd, ex) ==
  IF path \in analyzed_paths
    THEN /\ stack' = stk /\ dependencies' = deps /\ reads' = rd /\ extractions' = ex
         /\ UNCHANGED analyzed_paths
  ELSE /\ analyzed_paths' = analyzed_paths \cup {path}
       /\ IF ~Exists(f, path)
            THEN stack' = <<>> /\ dependencies' = {} /\ reads' = rd /\ extractions' = ex
          ELSE IF ~Content(f, path).decodable \/ PathSuffix(path) \notin language_handlers
            THEN /\ stack' = <<>> /\ dependencies' = {} /\ extractions' = ex
                 /\ reads' = rd \cup {path}
          ELSE LET direct_deps == Handle(f, tomlInstalled, path)
               IN /\ reads' = rd \cup {path} \cup SiblingReads(f, path)
                  /\ extractions' = Append(ex, Resolve(f, path))
                  /\ IF direct_deps.raised
                       THEN stack' = stk /\ dependencies' = deps
                     ELSE /\ dependencies' = deps \cup direct_deps.deps
                          /\ stack' = Append(stk, [path |-> path,
                                                   todo |-> direct_deps.deps])

\* _analyze_file_recursive(path), lines 50-63, called with the frames stk
\* active, deps accumulated, rd read and ex extracted so far: the visited check,
\* the read, the handler and the update; a frame is pushed for the loop over
\* direct_deps.  Every exception ends the call at line 68.
_analyze_file_recursive(f, path, stk, deps, rd, ex) ==
  IF path \in analyzed_paths
    THEN /\ stack' = stk /\ dependencies' = deps /\ reads' = rd /\ extractions' = ex
         /\ UNCHANGED analyzed_paths
  ELSE /\ analyzed_paths' = analyzed_paths \cup {path}
       /\ IF ~Exists(f, path)
            THEN stack' = stk /\ dependencies' = deps /\ reads' = rd /\ extractions' = ex
          ELSE IF ~Content(f, path).decodable \/ PathSuffix(path) \notin language_handlers
            THEN /\ stack' = stk /\ dependencies' = deps /\ extractions' = ex
                 /\ reads' = rd \cup {path}
          ELSE LET direct_deps == Handle(f, tomlInstalled, path)
               IN /\ reads' = rd \cup {path} \cup SiblingReads(f, path)
                  /\ extractions' = Append(ex, Resolve(f, path))
                  /\ IF direct_deps.raised
                       THEN stack' = stk /\ dependencies' = deps
                     ELSE /\ dependencies' = deps \cup direct_deps.deps
                          /\ stack' = Append(stk, [path |-> path,
                                                   todo |-> direct_deps.deps])

\* the record of one completed analyze() call
Run(path, before, after, status, deps) ==
  [file |-> path, fs |-> before, stable |-> (before = after),
   status |-> status, ret |-> deps]

\* analyze() with the extension looked up only after the file has been marked
\* visited and read
analyze_late_check(who) ==
  /\ caller' = who
  /\ project_root' = Dirname(file_path)
  /\ fsAtCall' = fs
  /\ IF PathSuffix(file_path) \notin language_handlers
       THEN /\ result' = [status |-> "ValueError", deps |-> {}]
            /\ runs' = Append(runs, Run(file_path, fs, fs, "ValueError", {}))
            /\ analyzed_paths' = analyzed_paths \cup {file_path}
            /\ reads' = {file_path} /\ extractions' = <<>>
            /\ UNCHANGED <<dependencies, stack>>
     ELSE /\ result' = [status |-> "running", deps |-> {}]
          /\ _analyze_file_recursive(fs, file_path, <<>>, {}, {}, <<>>)
          /\ UNCHANGED runs

\* analyze(file_path), lines 38-47, called by `who`
analyze(who) ==
  /\ caller' = who
  /\ project_root' = Dirname(file_path)
  /\ fsAtCall' = fs
  /\ IF PathSuffix(file_path) \notin language_handlers
       THEN /\ result' = [status |-> "ValueError", deps |-> {}]
            /\ runs' = Append(runs, Run(file_path, fs, fs, "ValueError", {}))
            /\ reads' = {} /\ extractions' = <<>>
            /\ UNCHANGED <<analyzed_paths, dependencies, stack>>
     ELSE /\ result' = [status |-> "running", deps |-> {}]
          /\ _analyze_file_recursive(fs, file_path, <<>>, {}, {}, <<>>)
          /\ UNCHANGED runs

\* what the environment may do to a file while an analysis is running: remove
\* it or make it unreadable; the entry file and the manifests are left alone
Removable(p) == ~IsManifest(p) /\ Last(p) \notin EntryNames
Removed(f, p) == [q \in DOMAIN f \ {p} |-> f[q]]
Unreadable(f, p) == [f EXCEPT ![p].decodable = FALSE]

\* the loop at lines 65-66 takes one dependency of the innermost frame, in the
\* set's iteration order, and calls _analyze_dependency_recursive (358-365);
\* a call nested deeper than the recursion limit raises RecursionError, which
\* the frame making the call catches at line 68.  Between os.path.exists at
\* line 364 and open at line 58 the environment may take the file away.
AnalyzeDependency ==
  /\ pc = "analyze"
  /\ stack # <<>>
  /\ LET top == stack[Len(stack)]
         below == SubSeq(stack, 1, Len(stack) - 1)
     IN /\ top.todo # {}
        /\ \E dep \in top.todo :
             LET rest == Append(below, [top EXCEPT !.todo = top.todo \ {dep}])
             IN IF dep.source = NoSource \/ ~Exists(fs, dep.source)
                  THEN /\ stack' = rest
                       /\ UNCHANGED <<fs, unlinks, analyzed_paths, dependencies,
                                      reads, extractions>>
                ELSE IF Len(stack) >= MaxDepth
                  THEN /\ stack' = below
                       /\ UNCHANGED <<fs, unlinks, analyzed_paths, dependencies,
                                      reads, extractions>>
                ELSE \/ /\ _analyze_file_recursive(fs, dep.source, rest, dependencies,
                                                    reads, extractions)
                        /\ UNCHANGED <<fs, unlinks>>
                     \/ /\ unlinks < MaxUnlinks
                        /\ Removable(Resolve(fs, dep.source))
                        /\ \E f \in {Removed(fs, Resolve(fs, dep.source)),
                                      Unreadable(fs, Resolve(fs, dep.source))} :
                             /\ fs' = f
                             /\ _analyze_file_recursive(f, dep.source, rest,
                                                        dependencies, reads, extractions)
                        /\ unlinks' = unlinks + 1
  /\ UNCHANGED <<tomlInstalled, file_path, project_root, result, pc, caller,
                 temp_dir, tempDirs, context, dockerfile, dockerCalls, buildResult,
                 runs, fsAtCall, calls, builders, steps, dockerStatus,
                 descriptors>>

\* the loop of the innermost frame is over: _analyze_file_recursive returns
ReturnFrame ==
  /\ pc = "analyze"
  /\ stack # <<>>
  /\ stack[Len(stack)].todo = {}
  /\ stack' = SubSeq(stack, 1, Len(stack) - 1)
  /\ UNCHANGED <<fs, tomlInstalled, file_path, analyzed_paths, project_root,
                 dependencies, result, pc, caller, temp_dir, tempDirs, context,
                 dockerfile, dockerCalls, buildResult, reads, extractions, runs,
                 fsAtCall, calls, builders, unlinks,
                 steps, dockerStatus, descriptors>>

\* analyze() called on the builder's analyzer by any other caller
DirectAnalyze ==
  /\ pc = "idle"
  /\ calls < MaxCalls
  /\ calls' = calls + 1
  /\ analyze("direct")
  /\ pc' = IF PathSuffix(file_path) \in language_handlers THEN "analyze" ELSE "idle"
  /\ UNCHANGED <<fs, tomlInstalled, file_path, temp_dir, tempDirs, context,
                 dockerfile, dockerCalls, buildResult, builders, unlinks,
                 steps, dockerStatus, descriptors>>

\* return list(dependencies), line 48
AnalyzeReturn ==
  /\ pc = "analyze"
  /\ stack = <<>>
  /\ result' = [status |-> "ok", deps |-> dependencies]
  /\ runs' = Append(runs, Run(file_path, fsAtCall, fs, "ok", dependencies))
  /\ pc' = IF caller = "build" THEN "manifest" ELSE "idle"
  /\ UNCHANGED <<fs, tomlInstalled, file_path, analyzed_paths, project_root,
                 dependencies, stack, caller, temp_dir, tempDirs, context,
                 dockerfile, dockerCalls, buildResult, reads, extractions,
                 fsAtCall, calls, builders, unlinks,
                 dockerStatus, descriptors>>
  /\ steps' = IF caller = "build" THEN Append(steps, "extract") ELSE steps

\* the environment removes a header while an analysis is running
Unlink ==
  /\ pc = "analyze"
  /\ unlinks < MaxUnlinks
  /\ \E p \in DOMAIN fs :
       /\ Removable(p)
       /\ fs' = Removed(fs, p)
  /\ unlinks' = unlinks + 1
  /\ UNCHANGED <<tomlInstalled, file_path, analyzed_paths, project_root,
                 dependencies, stack, result, pc, caller, temp_dir, tempDirs,
                 context, dockerfile, dockerCalls, buildResult, reads,
                 extractions, runs, fsAtCall, calls, builders,
                 steps, dockerStatus, descriptors>>

(***************************************************************************)
(* docker_builder.py                                                       *)
(***************************************************************************)
\* the keys of `builders` in DockerBuilder.build
builder_extensions == {".py", ".java", ".js", ".cpp", ".go", ".rs"}

\* the names docker_builder.py imports at module level (lines 1-6)
DockerBuilderImports ==
  {"Optional", "Dict", "os", "tempfile", "subprocess", "Path",
   "DependencyAnalyzer", "Dependency"}

\* the orders a loop over a set may take
Perms(S) ==
  {q \in [1..Cardinality(S) -> S] : \A i, j \in 1..Cardinality(S) : q[i] = q[j] => i = j}

\* a dict filled by d[name] = version in the order q: a later value for a name
\* replaces the earlier one in place
RECURSIVE DictOf(_)
DictOf(q) ==
  IF q = <<>> THEN <<>>
  ELSE LET init == DictOf(SubSeq(q, 1, Len(q) - 1))
           e == q[Len(q)]
       IN IF \E i \in 1..Len(init) : init[i].name = e.name
            THEN [i \in 1..Len(init) |-> IF init[i].name = e.name THEN e ELSE init[i]]
          ELSE Append(init, e)

\* the image name _build_from_dockerfile returns: "airseal-app:" + basename
ImageName(path) == Last(path)

\* the file of a build context
ContextFile(kind, body) == [kind |-> kind, body |-> body]
HasContextDir == temp_dir \in tempDirs

\* the manifest file each image builder writes and the dependency type it keeps
ManifestFile(ext) ==
  CASE ext = ".py" -> "requirements.txt"
    [] ext = ".js" -> "package.json"
    [] ext = ".go" -> "go.mod"
    [] ext = ".rs" -> "Cargo.toml"
    [] ext \in {".cpp", ".hpp", ".h"} -> "CMakeLists.txt"
    [] OTHER -> None
NativeKind(ext) == IF ext = ".rs" THEN "crate" ELSE "package"

\* _generate_dockerfile with a label that names the directory of the build
_generate_dockerfile_labelled(base_image, deps_commands, build_commands, run_command) ==
  <<<<"FROM", base_image>>, <<"WORKDIR", "/app">>, <<"LABEL", "context", temp_dir>>>>
  \o deps_commands
  \o <<<<"COPY", ".", ".">>>>
  \o build_commands
  \o <<<<"CMD">> \o run_command>>

\* _generate_dockerfile, lines 33-42: the lines of the Dockerfile
_generate_dockerfile(base_image, deps_commands, build_commands, run_command) ==
  <<<<"FROM", base_image>>, <<"WORKDIR", "/app">>>>
  \o deps_commands
  \o <<<<"COPY", ".", ".">>>>
  \o build_commands
  \o <<<<"CMD">> \o run_command>>

\* the name _build_java_image gives the copied source, lines 83-93: the public
\* class the file declares, or the file's own name when the pattern finds none
JavaFileName(path) ==
  LET class_name == Content(fs, path).public_class
  IN CASE class_name = None -> Last(path)
       [] class_name = "App" -> "App.java"

\* build() returns None without a docker build
ReturnNone ==
  /\ buildResult' = None
  /\ pc' = "idle"

\* build(), lines 14-31, up to the analyze() call of the image builder it
\* dispatches to (_build_java_image makes none and reads the file itself)
Build ==
  /\ pc = "idle"
  /\ calls < MaxCalls
  /\ calls' = calls + 1
  /\ dockerCalls' = 0
  /\ dockerfile' = <<>>
  /\ LET ext == PathSuffix(file_path)
     IN IF ext \notin builder_extensions
          THEN /\ ReturnNone
               /\ reads' = {}
               /\ extractions' = <<>>
               /\ UNCHANGED <<analyzed_paths, project_root, dependencies, stack,
                              result, caller, runs, fsAtCall>>
        ELSE IF ext = ".java"
          THEN /\ IF Exists(fs, file_path) /\ Content(fs, file_path).decodable
                    THEN buildResult' = "pending" /\ pc' = "copy"
                  ELSE ReturnNone
               /\ reads' = IF Exists(fs, file_path) THEN {file_path} ELSE {}
               /\ extractions' = <<>>
               /\ UNCHANGED <<analyzed_paths, project_root, dependencies, stack,
                              result, caller, runs, fsAtCall>>
        ELSE /\ analyze("build")
             /\ IF PathSuffix(file_path) \in language_handlers
                  THEN buildResult' = "pending" /\ pc' = "analyze"
                ELSE ReturnNone
  /\ UNCHANGED <<fs, tomlInstalled, file_path, temp_dir, tempDirs, context,
                 builders, unlinks,
                 descriptors>>
  /\ steps' = <<>>
  /\ dockerStatus' = "none"

\* the manifest step of _build_python_image (50-55), _build_node_image (122-134),
\* _build_cpp_image (157-173), _build_go_image (197-209), _build_rust_image (234-250)
WriteManifest ==
  /\ pc = "manifest"
  /\ LET ext == PathSuffix(file_path)
         native == IF ext = ".rs" THEN "crate" ELSE "package"
         chosen == {d \in result.deps : d.type = native}
         unpinned == CASE ext = ".rs" -> "*"
                       [] ext \in {".js", ".go"} -> "latest"
                       [] OTHER -> None
         line(d) == Entry(d.name, IF d.version = None THEN unpinned ELSE d.version)
     IN IF ~HasContextDir
          THEN ReturnNone /\ UNCHANGED context
        ELSE \E q \in Perms(chosen) :
          LET lines == [i \in 1..Len(q) |-> line(q[i])]
          IN CASE ext = ".py" ->
                    /\ context' = ("requirements.txt" :> ContextFile("manifest", lines)) @@ context
                    /\ pc' = "copy"
                    /\ UNCHANGED buildResult
               [] ext = ".js" ->
                    IF "json" \in DockerBuilderImports
                      THEN /\ context' = ("package.json" :>
                                           ContextFile("manifest", DictOf(lines))) @@ context
                           /\ pc' = "descr"
                           /\ UNCHANGED buildResult
                    ELSE /\ context' = ("package.json" :> ContextFile("manifest", <<>>)) @@ context
                         /\ ReturnNone     \* NameError at line 134, caught at 148
               [] ext = ".cpp" ->
                    /\ context' = ("CMakeLists.txt" :>
                                    ContextFile("manifest",
                                                [i \in 1..Len(q) |-> Entry(q[i].name, None)])) @@ context
                    /\ pc' = "descr"
                    /\ UNCHANGED buildResult
               [] ext = ".go" ->
                    /\ context' = ("go.mod" :> ContextFile("manifest", lines)) @@ context
                    /\ pc' = "descr"
                    /\ UNCHANGED buildResult
               [] ext = ".rs" ->
                    IF tomlInstalled
                      THEN /\ context' = ("Cargo.toml" :>
                                           ContextFile("manifest", DictOf(lines))) @@ context
                           /\ pc' = "descr"
                           /\ UNCHANGED buildResult
                    ELSE /\ context' = ("Cargo.toml" :> ContextFile("manifest", <<>>)) @@ context
                         /\ ReturnNone     \* ImportError at line 249, caught at 268
  /\ UNCHANGED <<fs, tomlInstalled, file_path, analyzed_paths, project_root,
                 dependencies, stack, result, caller, temp_dir, tempDirs,
                 dockerfile, dockerCalls, reads, extractions, runs, fsAtCall,
                 calls, builders, unlinks,
                 dockerStatus, descriptors>>
  /\ steps' = IF pc' = "idle" THEN steps ELSE Append(steps, "manifest")

\* the copy of the source file into the context: _build_python_image (57-60),
\* _build_java_image (95-97); the other image builders copy nothing
CopySource ==
  /\ pc = "copy"
  /\ LET name == IF PathSuffix(file_path) = ".java"
                   THEN JavaFileName(file_path) ELSE Last(file_path)
     IN IF Exists(fs, file_path) /\ HasContextDir
          THEN /\ context' = (name :> ContextFile("source", Resolve(fs, file_path))) @@ context
               /\ reads' = reads \cup {file_path}
               /\ pc' = "descr"
               /\ UNCHANGED buildResult
        ELSE ReturnNone /\ UNCHANGED <<context, reads>>
  /\ UNCHANGED <<fs, tomlInstalled, file_path, analyzed_paths, project_root,
                 dependencies, stack, result, caller, temp_dir, tempDirs,
                 dockerfile, dockerCalls, extractions, runs, fsAtCall, calls,
                 builders, unlinks,
                 dockerStatus, descriptors>>
  /\ steps' = IF pc' = "idle" THEN steps ELSE Append(steps, "copy")

\* the _generate_dockerfile call of each image builder
Descriptor(path) ==
  LET ext == PathSuffix(path)
      base == Last(path)
  IN CASE ext = ".py" ->
            _generate_dockerfile("python:3.9-slim",
              <<<<"COPY", "requirements.txt", ".">>,
                <<"RUN", "pip install --no-cache-dir -r requirements.txt">>>>,
              <<>>, <<"python", base>>)
       [] ext = ".java" ->
            _generate_dockerfile("openjdk:11-jdk-slim", <<>>,
              <<<<"RUN", "mkdir -p build && javac -d build", JavaFileName(path),
                 "&& cd build && jar cfe", JavaFileName(path)>>>>,
              <<"java", "-jar", JavaFileName(path)>>)
       [] ext = ".js" ->
            _generate_dockerfile("node:16-slim",
              <<<<"COPY", "package.json", ".">>, <<"RUN", "npm install">>>>,
              <<>>, <<"node", base>>)
       [] ext = ".cpp" ->
            _generate_dockerfile("gcc:latest",
              <<<<"RUN", "apt-get update && apt-get install -y cmake">>>>,
              <<<<"RUN", "cmake . && make">>>>, <<"./app">>)
       [] ext = ".go" ->
            _generate_dockerfile("golang:1.16",
              <<<<"COPY", "go.mod", ".">>, <<"RUN", "go mod download">>>>,
              <<<<"RUN", "go build -o app">>>>, <<"./app">>)
       [] ext = ".rs" ->
            _generate_dockerfile("rust:1.60",
              <<<<"COPY", "Cargo.toml", ".">>,
                <<"RUN", "mkdir src && echo 'fn main() {}' > src/main.rs">>,
                <<"RUN", "cargo build --release">>,
                <<"RUN", "rm -rf src">>>>,
              <<<<"RUN", "cargo build --release">>>>, <<"./target/release/app">>)
       [] OTHER -> <<>>

GenerateDockerfile ==
  /\ pc = "descr"
  /\ dockerfile' = Descriptor(file_path)
  /\ pc' = "write"
  /\ UNCHANGED <<fs, tomlInstalled, file_path, analyzed_paths, project_root,
                 dependencies, stack, result, caller, temp_dir, tempDirs, context,
                 dockerCalls, buildResult, reads, extractions, runs, fsAtCall,
                 calls, builders, unlinks,
                 dockerStatus>>
  /\ steps' = Append(steps, "descriptor")
  /\ descriptors' = descriptors \cup
       {[file |-> file_path, builder |-> builders,
         content |-> IF Exists(fs, file_path) THEN Content(fs, file_path) ELSE None,
         text |-> Descriptor(file_path)]}

\* _build_from_dockerfile, lines 275-278: the Dockerfile is written
WriteDockerfile ==
  /\ pc = "write"
  /\ IF HasContextDir
       THEN /\ context' = ("Dockerfile" :> ContextFile("dockerfile", dockerfile)) @@ context
            /\ pc' = "docker"
            /\ UNCHANGED buildResult
     ELSE ReturnNone /\ UNCHANGED context
  /\ UNCHANGED <<fs, tomlInstalled, file_path, analyzed_paths, project_root,
                 dependencies, stack, result, caller, temp_dir, tempDirs,
                 dockerfile, dockerCalls, reads, extractions, runs, fsAtCall,
                 calls, builders, unlinks,
                 steps, dockerStatus, descriptors>>

\* _build_from_dockerfile running `docker build` without check=True: a nonzero
\* exit status raises nothing
DockerBuild_unchecked ==
  /\ pc = "docker"
  /\ \E outcome \in {"built", "CalledProcessError", "FileNotFoundError"} :
       /\ dockerCalls' = IF outcome = "FileNotFoundError" THEN dockerCalls
                         ELSE dockerCalls + 1
       /\ buildResult' = IF outcome = "FileNotFoundError" THEN None
                         ELSE ImageName(file_path)
       /\ dockerStatus' = outcome
  /\ pc' = "idle"
  /\ UNCHANGED <<fs, tomlInstalled, file_path, analyzed_paths, project_root,
                 dependencies, stack, result, caller, temp_dir, tempDirs, context,
                 dockerfile, reads, extractions, runs, fsAtCall, calls, builders,
                 unlinks,
                 steps, descriptors>>

\* _build_from_dockerfile, lines 281-290: `docker build` runs and succeeds, or
\* exits nonzero (CalledProcessError), or cannot be started (FileNotFoundError)
DockerBuild ==
  /\ pc = "docker"
  /\ \E outcome \in {"built", "CalledProcessError", "FileNotFoundError"} :
       /\ dockerCalls' = IF outcome = "FileNotFoundError" THEN dockerCalls
                         ELSE dockerCalls + 1
       /\ buildResult' = IF outcome = "built" THEN ImageName(file_path) ELSE None
       /\ dockerStatus' = outcome
  /\ pc' = "idle"
  /\ UNCHANGED <<fs, tomlInstalled, file_path, analyzed_paths, project_root,
                 dependencies, stack, result, caller, temp_dir, tempDirs, context,
                 dockerfile, reads, extractions, runs, fsAtCall, calls, builders,
                 unlinks,
                 steps, descriptors>>

\* cleanup(), lines 292-298
Cleanup ==
  /\ pc = "idle"
  /\ HasContextDir
  /\ tempDirs' = tempDirs \ {temp_dir}
  /\ context' = <<>>
  /\ UNCHANGED <<fs, tomlInstalled, file_path, analyzed_paths, project_root,
                 dependencies, stack, result, pc, caller, temp_dir, dockerfile,
                 dockerCalls, buildResult, reads, extractions, runs, fsAtCall,
                 calls, builders, unlinks,
                 steps, dockerStatus, descriptors>>

\* DockerBuilder(file_path), lines 9-12: a new temporary directory, a new analyzer
NewBuilder ==
  /\ pc = "idle"
  /\ builders < MaxBuilders
  /\ builders' = builders + 1
  /\ \E f \in EntryFiles(fs) : file_path' = f
  /\ temp_dir' = builders + 1
  /\ tempDirs' = tempDirs \cup {builders + 1}
  /\ analyzed_paths' = {}
  /\ project_root' = NoSource
  /\ context' = <<>>
  /\ dockerfile' = <<>>
  /\ dockerCalls' = 0
  /\ buildResult' = "none"
  /\ UNCHANGED <<fs, tomlInstalled, dependencies, stack, result, pc, caller,
                 reads, extractions, runs, fsAtCall, calls, unlinks,
                 descriptors>>
  /\ steps' = <<>>
  /\ dockerStatus' = "none"

(***************************************************************************)
(* The specification                                                       *)
(***************************************************************************)
Init ==
  /\ \E w \in Worlds, ms \in ManifestStates :
       /\ fs = Damage(w, ms)
       /\ file_path \in EntryFiles(w)
  \* only the Rust handler and the Rust image builder import toml
  /\ tomlInstalled \in (IF PathSuffix(file_path) = ".rs" THEN BOOLEAN ELSE {FALSE})
  /\ analyzed_paths = {}
  /\ project_root = NoSource
  /\ dependencies = {}
  /\ stack = <<>>
  /\ result = [status |-> "none", deps |-> {}]
  /\ pc = "idle"
  /\ caller = "none"
  /\ temp_dir = 1
  /\ tempDirs = {1}
  /\ context = <<>>
  /\ dockerfile = <<>>
  /\ dockerCalls = 0
  /\ buildResult = "none"
  /\ reads = {}
  /\ extractions = <<>>
  /\ runs = <<>>
  /\ fsAtCall = fs
  /\ calls = 0
  /\ builders = 1
  /\ unlinks = 0
  /\ steps = <<>>
  /\ dockerStatus = "none"
  /\ descriptors = {}

Next ==
  \/ DirectAnalyze
  \/ AnalyzeDependency
  \/ ReturnFrame
  \/ AnalyzeReturn
  \/ Unlink
  \/ Build
  \/ WriteManifest
  \/ CopySource
  \/ GenerateDockerfile
  \/ WriteDockerfile
  \/ DockerBuild
  \/ Cleanup
  \/ NewBuilder

Spec == Init /\ [][Next]_vars

(***************************************************************************)
(* Properties                                                              *)
(***************************************************************************)
\* the first analyze() call of a fresh analyzer has returned, and no file
\* changed while it ran
FirstRunReturned ==
  /\ Len(runs) = 1
  /\ runs[1].status = "ok"
  /\ result.status = "ok"
  /\ runs[1].stable
  /\ fs = runs[1].fs

\* C1: in every state during and after an analyze() run, no two entries of the
\* accumulated dependency set have the same (type, name, version, language).
C1_NoDuplicateIdentity ==
  /\ \A d1, d2 \in dependencies : DependencyHash(d1) = DependencyHash(d2) => d1 = d2
  /\ \A d1, d2 \in result.deps : DependencyHash(d1) = DependencyHash(d2) => d1 = d2

\* C2: during one analyze() run no file is handed to an extractor twice, cyclic
\* local includes and includes written with "./" or "../" included.
C2_ExtractedAtMostOnce ==
  \A i, j \in DOMAIN extractions : extractions[i] = extractions[j] => i = j

\* C3: two analyze() calls on the same file, with the file system the same and
\* unchanged, return the same dependency set, whatever was analyzed before.
C3_SameResultEveryCall ==
  \A i, j \in DOMAIN runs :
    (runs[i].file = runs[j].file /\ runs[i].fs = runs[j].fs
       /\ runs[i].stable /\ runs[j].stable)
    => (runs[i].status = runs[j].status /\ runs[i].ret = runs[j].ret)

\* C4: when the entry file does not parse, analyze() does not return a
\* dependency set as a normal result, and no docker build is run for the request.
C4_ParseFailureAborts ==
  (Exists(fs, file_path) /\ ~Content(fs, file_path).syntax)
  => (result.status # "ok" /\ dockerCalls = 0)

\* C5: for an entry file whose extension is not registered, analyze() raises the
\* unsupported-type error with no file read and no path marked visited, and
\* build() returns without running a docker build.
C5_UnsupportedFailsFast ==
  PathSuffix(file_path) \notin language_handlers
  => /\ reads = {}
     /\ analyzed_paths = {}
     /\ stack = <<>>
     /\ pc = "idle"
     /\ result.status \in {"none", "ValueError"}
     /\ \A i \in DOMAIN runs : runs[i].status = "ValueError"
     /\ dockerCalls = 0
     /\ buildResult \in {"none", None}

\* C5 witness: both analyze() and build() were called on a file of an
\* unregistered extension; the first raised and the second returned None.
C5_Witness ==
  /\ PathSuffix(file_path) \notin language_handlers
  /\ result.status = "ValueError"
  /\ buildResult = None
  /\ calls = 2

\* the file system without its manifest files
WithoutManifests(f) == [p \in {q \in DOMAIN f : ~IsManifest(q)} |-> f[p]]
Malformed(m) == ~m.decodable \/ ~m.syntax \/ ~m.shape

\* C6: when the sibling manifest is malformed, the analysis of the entry file
\* still returns every dependency found in the entry file's own content.
C6_MalformedManifestSkipped ==
  (FirstRunReturned /\ \E p \in DOMAIN fs : IsManifest(p) /\ Malformed(fs[p]))
  => Handle(WithoutManifests(fs), tomlInstalled, file_path).deps \subseteq result.deps

\* C7: once build() has returned, the temporary build-context directory of the
\* request no longer exists, whatever the exit path.
C7_ContextDirRemoved ==
  (pc = "idle" /\ buildResult \notin {"none", "pending"}) => temp_dir \notin tempDirs

\* the standard-library exclusion set of the specification's Scenario A
StandardLibrary == {"os", "sys", "json", "re"}

\* C8: for a Python entry file that parses and has no sibling requirements.txt,
\* the result is exactly one package dependency per imported module that is not
\* a standard-library module.
C8_PythonImports ==
  (/\ FirstRunReturned
   /\ PathSuffix(file_path) = ".py"
   /\ Content(fs, file_path).syntax
   /\ ~Exists(fs, Sibling(file_path, "requirements.txt")))
  => result.deps = {Dependency("package", n, None, NoSource, "python") :
                      n \in Content(fs, file_path).imports \ StandardLibrary}

\* C9: for a Python file with a well-formed sibling requirements.txt, the
\* requirements.txt written into the build context pins every `name==version`
\* line of the sibling file to that version (stated for the names the analysis
\* collected).
C9_RequirementPinned ==
  LET req == Sibling(file_path, "requirements.txt")
  IN (/\ PathSuffix(file_path) = ".py"
      /\ FirstRunReturned
      /\ "requirements.txt" \in DOMAIN context
      /\ Exists(fs, req)
      /\ ~Malformed(Content(fs, req)))
     => \A e \in {x \in Content(fs, req).entries :
                    \E d \in result.deps : d.name = x.name} :
          \E i \in DOMAIN context["requirements.txt"].body :
            context["requirements.txt"].body[i] = Entry(e.name, e.version)

\* the direct dependencies of a file: of the entry file what its language's
\* extractor finds, of a file reached through an include what the C++ extractor finds
DirectDependencies(f, p) ==
  IF Resolve(f, p) = Resolve(f, file_path)
    THEN Handle(f, tomlInstalled, p).deps
  ELSE _analyze_cpp(f, p).deps

\* the files reachable from the entry file through dependencies whose source exists
RECURSIVE ReachableFrom(_, _, _)
ReachableFrom(f, seen, n) ==
  LET more == {Resolve(f, d.source) :
                 d \in {x \in UNION {DirectDependencies(f, p) : p \in seen} :
                          x.source # NoSource /\ Exists(f, x.source)}}
  IN IF n = 0 \/ more \subseteq seen THEN seen
     ELSE ReachableFrom(f, seen \cup more, n - 1)

Reachable(f) == ReachableFrom(f, {Resolve(f, file_path)}, Cardinality(DOMAIN f))

\* C10: the dependency set analyze() returns contains the direct dependencies of
\* every file reachable from the entry file through local dependencies whose
\* source path exists.
C10_TransitiveClosure ==
  (/\ Len(runs) > 0
   /\ runs[Len(runs)].status = "ok"
   /\ runs[Len(runs)].stable
   /\ runs[Len(runs)].file = file_path
   /\ fs = runs[Len(runs)].fs)
  => \A p \in Reachable(fs) :
       {DependencyHash(d) : d \in DirectDependencies(fs, p)}
         \subseteq {DependencyHash(d) : d \in runs[Len(runs)].ret}

\* the version fields that leave the choice of version to the ecosystem
Unconstrained == {None, "*", "latest"}

\* the manifest step of the current build() call is over: analyze() returned to
\* the image builder and the builder has gone past writing the manifest
ManifestStepOver ==
  /\ steps # <<>>
  /\ Head(steps) = "extract"
  /\ caller = "build"
  /\ result.status = "ok"
  /\ pc \notin {"analyze", "manifest"}
  /\ HasContextDir

\* C11: once the manifest step of a Python, JavaScript, Go or Rust build is
\* over, the manifest in the build context has exactly one entry per dependency
\* of the native kind in the dependency set the analysis returned, each with
\* the dependency's version when it has one and unconstrained otherwise.
C11_ManifestIsNativeDependencies ==
  LET ext == PathSuffix(file_path)
      native == {d \in result.deps : d.type = NativeKind(ext)}
  IN (ManifestStepOver /\ ext \in {".py", ".js", ".go", ".rs"})
     => /\ ManifestFile(ext) \in DOMAIN context
        /\ LET body == context[ManifestFile(ext)].body
               matches(e, d) ==
                 /\ e.name = d.name
                 /\ IF d.version = None THEN e.version \in Unconstrained
                    ELSE e.version = d.version
           IN /\ \A i \in 1..Len(body) : \E d \in native : matches(body[i], d)
              /\ \A d \in native : \E i \in 1..Len(body) : matches(body[i], d)

\* the package names of the file systems above, in lexicographic order
NamesInOrder == <<"Boost", "com.google.guava:guava", "flask", "fmt",
                  "github.com/pkg/errors", "junit:junit", "lodash", "requests",
                  "serde">>
Rank(name) == CHOOSE i \in 1..Len(NamesInOrder) : NamesInOrder[i] = name

\* C12: once the manifest step of a build is over, the entries of the manifest
\* in the build context are in the order of their names.
C12_ManifestSortedByName ==
  LET ext == PathSuffix(file_path)
  IN (ManifestStepOver /\ ManifestFile(ext) \in DOMAIN context)
     => LET body == context[ManifestFile(ext)].body
        IN \A i, j \in 1..Len(body) :
             i < j => Rank(body[i].name) <= Rank(body[j].name)

C14_NoInstallStepWhenEmpty ==
  (/\ ManifestStepOver
   /\ pc \in {"write", "docker"}
   /\ Content(fs, file_path).imports = {}
   /\ Content(fs, file_path).locals = {}
   /\ SiblingReads(fs, file_path) = {}
   /\ result.deps = {})
  => /\ Len(dockerfile) >= 4
     /\ dockerfile[1][1] = "FROM"
     /\ dockerfile[3] = <<"COPY", ".", ".">>
     /\ dockerfile[Len(dockerfile)][1] = "CMD"

\* C15: `docker build` is run at most once in a build() call, and when it exits
\* with a nonzero status the call has ended, after that one run, with None as
\* its result.
C15_BuildOnceNoRetry ==
  /\ dockerCalls <= 1
  /\ dockerStatus = "CalledProcessError"
       => /\ dockerCalls = 1
          /\ buildResult = None
          /\ pc \notin {"manifest", "copy", "descr", "write", "docker"}

\* a build() call whose `docker build` exited with a nonzero status
C15_Witness ==
  /\ dockerStatus = "CalledProcessError"
  /\ dockerCalls = 1
  /\ "descriptor" \in {steps[i] : i \in 1..Len(steps)}

\* the files the running analysis found through a dependency and can no longer
\* read: they were there when analyze() was called, the analysis has come to
\* them, and they are gone or unreadable now
LostSources ==
  {d \in dependencies :
     /\ d.source # NoSource
     /\ d.source \in analyzed_paths
     /\ Exists(fsAtCall, d.source)
     /\ \/ ~Exists(fs, d.source)
        \/ ~Content(fs, d.source).decodable}

\* C16: in every step of a running analysis, whatever the environment removes
\* or makes unreadable, the dependencies accumulated so far are kept, a file
\* is extracted only if it is there and readable, and when the run ends it
\* returns normally with everything accumulated.
C16_LostFileIsLeaf ==
  [][pc = "analyze"
       => /\ dependencies \subseteq dependencies'
          /\ extractions' # extractions
               => /\ Len(extractions') = Len(extractions) + 1
                  /\ extractions'[Len(extractions')] \in DOMAIN fs'
                  /\ fs'[extractions'[Len(extractions')]].decodable
          /\ pc' # "analyze"
               => /\ result'.status = "ok"
                  /\ dependencies \subseteq result'.deps]_vars

\* an analysis has returned normally with a dependency whose file was taken
\* away after the analysis started and was never extracted
C16_Witness ==
  /\ result.status = "ok"
  /\ pc # "analyze"
  /\ \E d \in LostSources :
       /\ d \in result.deps
       /\ \A i \in 1..Len(extractions) : extractions[i] # Resolve(fsAtCall, d.source)

\* C17: when a build() call is about to run `docker build`, it has completed
\* the analysis of the entry file, then the manifest, then the Dockerfile.
C17_StagesInOrder ==
  pc = "docker"
    => \E i, j, k \in 1..Len(steps) :
         /\ i < j /\ j < k
         /\ steps[i] = "extract"
         /\ steps[j] = "manifest"
         /\ steps[k] = "descriptor"

\* the name under which the commands of the Dockerfile expect the entry file
SourceName ==
  IF PathSuffix(file_path) = ".java" THEN JavaFileName(file_path)
  ELSE Last(file_path)

\* C18: when a build() call is about to run `docker build`, the build context
\* holds the Dockerfile that was generated, every file a COPY line of it
\* names, and the entry source file under the name the commands use.
C18_ContextComplete ==
  pc = "docker"
    => /\ "Dockerfile" \in DOMAIN context
       /\ context["Dockerfile"].body = dockerfile
       /\ \A i \in 1..Len(dockerfile) :
            (dockerfile[i][1] = "COPY" /\ dockerfile[i][2] # ".")
              => dockerfile[i][2] \in DOMAIN context
       /\ SourceName \in DOMAIN context
       /\ context[SourceName].kind = "source"

====
